---- MODULE Spec2Model ----
(***************************************************************************)
(* Model of src/main.py: a record store over one sqlite3 table, person,    *)
(* with six TEXT columns.  Every function opens a connection to            *)
(* "database.db", runs one statement, commits if it wrote, and closes.     *)
(*                                                                         *)
(* Text is a sequence of Unicode codepoints, so that the comparisons the   *)
(* engine makes (BINARY collation for = and ORDER BY, LIKE with ASCII-only *)
(* case folding and the wildcards % and _) are computed, not assumed.      *)
(* Python's None is the empty tuple <<>>: a fetched row always has six (or *)
(* two) fields, so no row is equal to it.                                  *)
(***************************************************************************)
EXTENDS Integers, Sequences, FiniteSets, Bags, TLC

VARIABLES
  tableExists,  \* database.db holds a table named person
  rows,         \* the rows of person in storage (rowid) order
  unclosed,     \* connections opened by connect() on which close() was never called
  result,       \* the last call: [op, arg, fault, ret]
  pre,          \* history: the database as the last call found it
  inserted,     \* history: bag of the rows inserted since the table was created
  mainOut       \* what the last run of main() held in items, sle, sbp, items

vars == <<tableExists, rows, unclosed, result, pre, inserted, mainOut>>

\* ---------------------------------------------------------------- bounds
MaxRows == 5      \* rows the table may hold
MaxUnclosed == 2  \* connections that may be left without close()

\* ------------------------------------------------------- column positions
\* CREATE TABLE person (username, email, firstname, lastname, biography, occupation)
Columns == <<"username", "email", "firstname", "lastname", "biography", "occupation">>

Col(name) == CHOOSE i \in 1..Len(Columns) : Columns[i] = name

None == <<>>

\* ------------------------------------------------------------ input data
\* main(): person
person ==
  << <<78, 101, 111>>,  \* 'Neo'
     <<84, 104, 111, 109, 97, 115, 65, 110, 100, 101, 114, 115, 111, 110, 64,
       103, 109, 97, 105, 108, 46, 99, 111, 109>>,  \* 'ThomasAnderson@gmail.com'
     <<84, 104, 111, 109, 97, 115>>,  \* 'Thomas'
     <<65, 110, 100, 101, 114, 115, 111, 110>>,  \* 'Anderson'
     <<84, 104, 111, 109, 97, 115, 32, 65, 110, 100, 101, 114, 115, 111, 110,
       32, 105, 115, 32, 97, 32, 67, 111, 109, 112, 117, 116, 101, 114, 32,
       80, 114, 111, 103, 114, 97, 109, 109, 101, 114, 46>>,
                        \* 'Thomas Anderson is a Computer Programmer.'
     <<67, 111, 109, 112, 117, 116, 101, 114, 32, 80, 114, 111, 103, 114, 97,
       109, 109, 101, 114>> >>  \* 'Computer Programmer'

\* populate_table(): people
people ==
  << << <<74, 97, 110, 101, 121>>,  \* 'Janey'
        <<74, 97, 110, 101, 68, 111, 101, 64, 103, 109, 97, 105, 108, 46, 99,
          111, 109>>,  \* 'JaneDoe@gmail.com'
        <<74, 97, 110, 101>>,  \* 'Jane'
        <<68, 111, 101>>,  \* 'Doe'
        <<74, 97, 110, 101, 32, 68, 111, 101, 32, 105, 115, 32, 97, 32, 83,
          111, 102, 116, 119, 97, 114, 101, 32, 69, 110, 103, 105, 110, 101,
          101, 114, 46>>,  \* 'Jane Doe is a Software Engineer.'
        <<83, 111, 102, 116, 119, 97, 114, 101, 32, 69, 110, 103, 105, 110,
          101, 101, 114>> >>,  \* 'Software Engineer'
     << <<74, 111, 101, 121>>,  \* 'Joey'
        <<74, 111, 101, 83, 104, 109, 111, 64, 103, 109, 97, 105, 108, 46, 99,
          111, 109>>,  \* 'JoeShmo@gmail.com'
        <<74, 111, 115, 101, 112, 104>>,  \* 'Joseph'
        <<83, 104, 109, 111>>,  \* 'Shmo'
        <<74, 111, 115, 101, 112, 104, 32, 83, 104, 109, 111, 32, 105, 115,
          32, 97, 32, 68, 97, 116, 97, 32, 83, 99, 105, 101, 110, 116, 105,
          115, 116, 46>>,  \* 'Joseph Shmo is a Data Scientist.'
        <<68, 97, 116, 97, 32, 83, 99, 105, 101, 110, 116, 105, 115, 116>> >>,
                           \* 'Data Scientist'
     << <<74, 111, 110, 110, 121>>,  \* 'Jonny'
        <<74, 111, 104, 110, 83, 109, 105, 116, 104, 64, 103, 109, 97, 105,
          108, 46, 99, 111, 109>>,  \* 'JohnSmith@gmail.com'
        <<74, 111, 104, 110>>,  \* 'John'
        <<83, 109, 105, 116, 104>>,  \* 'Smith'
        <<74, 111, 104, 110, 32, 68, 111, 101, 32, 105, 115, 32, 97, 32, 68,
          97, 116, 97, 98, 97, 115, 101, 32, 65, 100, 109, 105, 110, 105, 115,
          116, 114, 97, 116, 111, 114, 46>>,
                           \* 'John Doe is a Database Administrator.'
        <<68, 97, 116, 97, 98, 97, 115, 101, 32, 65, 100, 109, 105, 110, 105,
          115, 116, 114, 97, 116, 111, 114>> >> >>  \* 'Database Administrator'

\* A caller's row whose lastname differs from 'Shmo' in case only and whose
\* biography holds a literal underscore.
Zed ==
  << <<122, 101, 100>>,  \* 'zed'
     <<122, 64, 120>>,  \* 'z@x'
     <<90, 101, 100>>,  \* 'Zed'
     <<115, 104, 109, 111>>,  \* 'shmo'
     <<97, 110, 32, 69, 78, 71, 73, 78, 69, 69, 82, 95>>,  \* 'an ENGINEER_'
     <<120>> >>  \* 'x'

\* A caller's row with the lastname of people[2], a smaller firstname, and a
\* biography that is one non-ASCII capital letter.
Al ==
  << <<97, 108>>,  \* 'al'
     <<97, 64, 120>>,  \* 'a@x'
     <<65, 108>>,  \* 'Al'
     <<83, 104, 109, 111>>,  \* 'Shmo'
     <<201>>,  \* U+00C9, capital E with acute
     <<121>> >>  \* 'y'

\* A caller's tuple with too few fields.
Short ==
  << <<97, 108>>,  \* 'al'
     <<97, 64, 120>> >>  \* 'a@x'

\* The tuples insert_table is called with.
InsertArgs == {Zed, Al, Short}

Str_Shmo == <<83, 104, 109, 111>>  \* 'Shmo'  (main)
Str_shmo == <<115, 104, 109, 111>>  \* 'shmo'
Str_ENG == <<69, 78, 71>>  \* 'ENG'
Str_eng == <<101, 110, 103>>  \* 'eng'  (main)
Str_s == <<115>>  \* 's'  (main)
Str_underscore == <<95>>  \* '_'
Str_zz == <<122, 122>>  \* 'zz'
Str_eacute == <<233>>  \* U+00E9, small e with acute

\* The texts the three searches are called with.
SearchArgs ==
  {Str_Shmo, Str_shmo, Str_ENG, Str_eng, Str_s, Str_underscore, Str_zz, Str_eacute}

\* ------------------------------------------------------ the SQL engine
\* The comparison a NOCASE collation would make: ASCII letters compare equal
\* across case.
RECURSIVE StrLess_nocase(_, _)
StrLess_nocase(a, b) ==
  LET lc(c) == IF c >= 65 /\ c <= 90 THEN c + 32 ELSE c
  IN IF b = <<>> THEN FALSE
     ELSE IF a = <<>> THEN TRUE
     ELSE IF lc(a[1]) # lc(b[1]) THEN lc(a[1]) < lc(b[1])
     ELSE StrLess_nocase(Tail(a), Tail(b))

\* BINARY collation: memcmp over the UTF-8 bytes, which orders texts as
\* their codepoint sequences are ordered.
RECURSIVE StrLess(_, _)
StrLess(a, b) ==
  IF b = <<>> THEN FALSE
  ELSE IF a = <<>> THEN TRUE
  ELSE IF a[1] # b[1] THEN a[1] < b[1]
  ELSE StrLess(Tail(a), Tail(b))

\* The equality a NOCASE collation would make.
StrEq_nocase(a, b) ==
  /\ Len(a) = Len(b)
  /\ \A i \in 1..Len(a) :
       (IF a[i] >= 65 /\ a[i] <= 90 THEN a[i] + 32 ELSE a[i])
         = (IF b[i] >= 65 /\ b[i] <= 90 THEN b[i] + 32 ELSE b[i])

\* x = ? on two texts: equal byte for byte.
StrEq(a, b) == a = b

\* LIKE folds case for the 26 ASCII letters only.
Lower(c) == IF c >= 65 /\ c <= 90 THEN c + 32 ELSE c

\* x LIKE pat, without ESCAPE: % (37) matches any run of characters, _ (95)
\* matches any one character, and every other character matches itself up to
\* ASCII case.
RECURSIVE Like(_, _)
Like(pat, s) ==
  IF pat = <<>> THEN s = <<>>
  ELSE IF pat[1] = 37
       THEN Like(Tail(pat), s) \/ (s # <<>> /\ Like(pat, Tail(s)))
  ELSE /\ s # <<>>
       /\ (pat[1] = 95 \/ Lower(pat[1]) = Lower(s[1]))
       /\ Like(Tail(pat), Tail(s))

\* '%' + text + '%'
Wrap(text) == <<37>> \o text \o <<37>>

\* ORDER BY col: the sorter keeps rows with equal keys in scan order.
RECURSIVE OrderBy(_, _)
OrderBy(rs, col) ==
  IF rs = <<>> THEN <<>>
  ELSE LET sorted == OrderBy(SubSeq(rs, 1, Len(rs) - 1), col)
           r == rs[Len(rs)]
           n == Cardinality({i \in 1..Len(sorted) : ~StrLess(r[col], sorted[i][col])})
       IN SubSeq(sorted, 1, n) \o <<r>> \o SubSeq(sorted, n + 1, Len(sorted))

\* cursor.fetchone(): the first row of the result, or None.
fetchone(rs) == IF rs = <<>> THEN None ELSE rs[1]

\* SELECT firstname, lastname
Project(rs) == [i \in 1..Len(rs) |-> <<rs[i][Col("firstname")], rs[i][Col("lastname")]>>]

\* INSERT INTO person VALUES (?,?,?,?,?,?): the statement binds exactly six values.
Binds(p) == Len(p) = Len(Columns)

\* ---------------------------------------------------- the functions
\* A database is [exists, rows, unclosed].  A call maps the database it finds
\* to [db, fault, ret]: the database it leaves, whether an exception left the
\* function, and the value returned.

\* The function reached its return statement after con.close().
Ok(db, ret) == [db |-> db, fault |-> FALSE, ret |-> ret]

\* A statement raised between connect() and close(): the exception leaves the
\* function, close() is never reached and nothing is committed.
Err(db) == [db |-> [db EXCEPT !.unclosed = @ + 1], fault |-> TRUE, ret |-> None]

\* create_table with CREATE TABLE IF NOT EXISTS: no exception when person
\* exists, so the function returns True.
create_table_if_not_exists(db) ==
  IF db.exists THEN Ok(db, TRUE)
  ELSE Ok([db EXCEPT !.exists = TRUE, !.rows = <<>>], TRUE)

\* CREATE TABLE person (...) raises when person exists; the bare except turns
\* every exception into False, skipping commit() and close().
create_table(db) ==
  IF db.exists
    THEN [db |-> [db EXCEPT !.unclosed = @ + 1], fault |-> FALSE, ret |-> FALSE]
    ELSE Ok([db EXCEPT !.exists = TRUE, !.rows = <<>>], TRUE)

\* drop_table with DROP TABLE person: raises when person does not exist.
drop_table_strict(db) ==
  IF db.exists THEN Ok([db EXCEPT !.exists = FALSE, !.rows = <<>>], None)
  ELSE Err(db)

\* DROP TABLE IF EXISTS person
drop_table(db) == Ok([db EXCEPT !.exists = FALSE, !.rows = <<>>], None)

\* insert_table binding the tuple in the order of the header comment of
\* main.py (username, firstname, lastname, email, biography, occupation).
insert_table_misordered(db, p) ==
  IF db.exists /\ Binds(p)
    THEN Ok([db EXCEPT !.rows = Append(@, <<p[1], p[3], p[4], p[2], p[5], p[6]>>)], None)
    ELSE Err(db)

\* INSERT INTO person VALUES (?,?,?,?,?,?) with the caller's tuple
insert_table(db, p) ==
  IF db.exists /\ Binds(p)
    THEN Ok([db EXCEPT !.rows = Append(@, p)], None)
    ELSE Err(db)

\* populate_table that first runs CREATE TABLE IF NOT EXISTS person.
populate_table_creating(db) ==
  Ok([db EXCEPT !.exists = TRUE, !.rows = @ \o people], None)

\* executemany of the same INSERT over people, then one commit
populate_table(db) ==
  IF db.exists /\ \A i \in 1..Len(people) : Binds(people[i])
    THEN Ok([db EXCEPT !.rows = @ \o people], None)
    ELSE Err(db)

\* fetch_table with ORDER BY firstname.
fetch_table_by_firstname(db) ==
  IF db.exists
    THEN Ok(db, OrderBy(db.rows, Col("firstname")))
    ELSE Err(db)

\* SELECT * FROM person ORDER BY lastname
fetch_table(db) ==
  IF db.exists
    THEN Ok(db, OrderBy(db.rows, Col("lastname")))
    ELSE Err(db)

\* SELECT * FROM person WHERE lastname=?  ; value.append(cur.fetchone())
search_lastname_exact(db, lastname) ==
  IF db.exists
    THEN Ok(db, <<fetchone(SelectSeq(db.rows,
                     LAMBDA r : StrEq(r[Col("lastname")], lastname)))>>)
    ELSE Err(db)

\* SELECT * FROM person WHERE biography LIKE ?  ; value = cur.fetchone()
search_biography_partial(db, bio) ==
  IF db.exists
    THEN Ok(db, fetchone(SelectSeq(db.rows,
                   LAMBDA r : Like(Wrap(bio), r[Col("biography")]))))
    ELSE Err(db)

\* SELECT firstname, lastname FROM person WHERE lastname LIKE ? ORDER BY firstname
search_lastname_partial_fullname(db, find) ==
  IF db.exists
    THEN Ok(db, Project(OrderBy(SelectSeq(db.rows,
                   LAMBDA r : Like(Wrap(find), r[Col("lastname")])),
                   Col("firstname"))))
    ELSE Err(db)

NoOutput == [ran |-> FALSE, items |-> <<>>, sle |-> <<>>, sbp |-> None, names |-> <<>>]

\* main(): drop, create and, when create_table() returned True, insert,
\* populate, fetch and the three searches.  An exception in any call ends
\* main there, with the database as that call left it.
main(db) ==
  LET d == drop_table(db)
      c == create_table(d.db)
      i == insert_table(c.db, person)
      p == populate_table(i.db)
      f == fetch_table(p.db)
      sle == search_lastname_exact(f.db, Str_Shmo)
      sbp == search_biography_partial(sle.db, Str_eng)
      items == search_lastname_partial_fullname(sbp.db, Str_s)
      Ended(o) == [db |-> o.db, fault |-> o.fault, ret |-> None, out |-> NoOutput]
  IN IF d.fault THEN Ended(d)
     ELSE IF ~c.ret THEN Ended(c)
     ELSE IF i.fault THEN Ended(i)
     ELSE IF p.fault THEN Ended(p)
     ELSE IF f.fault THEN Ended(f)
     ELSE IF sle.fault THEN Ended(sle)
     ELSE IF sbp.fault THEN Ended(sbp)
     ELSE IF items.fault THEN Ended(items)
     ELSE [db |-> items.db, fault |-> FALSE, ret |-> None,
           out |-> [ran |-> TRUE, items |-> f.ret, sle |-> sle.ret,
                    sbp |-> sbp.ret, names |-> items.ret]]

\* ------------------------------------------------------------- the state
Snapshot == [exists |-> tableExists, rows |-> rows, unclosed |-> unclosed]

BagOfSeq(s) ==
  [x \in {s[i] : i \in 1..Len(s)} |-> Cardinality({i \in 1..Len(s) : s[i] = x})]

Init ==
  /\ tableExists = FALSE
  /\ rows = <<>>
  /\ unclosed = 0
  /\ result = [op |-> "init", arg |-> None, fault |-> FALSE, ret |-> None]
  /\ pre = [exists |-> FALSE, rows |-> <<>>, unclosed |-> 0]
  /\ inserted = EmptyBag
  /\ mainOut = NoOutput

\* One call of a function by the single-threaded caller: the database becomes
\* the one the call leaves, within the bounds of the model.
Call(op, arg, o) ==
  /\ Len(o.db.rows) <= MaxRows
  /\ o.db.unclosed <= MaxUnclosed
  /\ tableExists' = o.db.exists
  /\ rows' = o.db.rows
  /\ unclosed' = o.db.unclosed
  /\ result' = [op |-> op, arg |-> arg, fault |-> o.fault, ret |-> o.ret]
  /\ pre' = Snapshot

CallCreateTable ==
  /\ Call("create_table", None, create_table(Snapshot))
  /\ inserted' = IF tableExists THEN inserted ELSE EmptyBag
  /\ UNCHANGED mainOut

CallDropTable ==
  /\ Call("drop_table", None, drop_table(Snapshot))
  /\ inserted' = EmptyBag
  /\ UNCHANGED mainOut

CallInsertTable ==
  \E p \in InsertArgs :
    /\ Call("insert_table", p, insert_table(Snapshot, p))
    /\ inserted' = IF result'.fault THEN inserted ELSE inserted (+) SetToBag({p})
    /\ UNCHANGED mainOut

CallPopulateTable ==
  /\ Call("populate_table", None, populate_table(Snapshot))
  /\ inserted' = IF result'.fault THEN inserted ELSE inserted (+) BagOfSeq(people)
  /\ UNCHANGED mainOut

CallFetchTable ==
  /\ Call("fetch_table", None, fetch_table(Snapshot))
  /\ UNCHANGED <<inserted, mainOut>>

CallSearchLastnameExact ==
  \E s \in SearchArgs :
    /\ Call("search_lastname_exact", s, search_lastname_exact(Snapshot, s))
    /\ UNCHANGED <<inserted, mainOut>>

CallSearchBiographyPartial ==
  \E s \in SearchArgs :
    /\ Call("search_biography_partial", s, search_biography_partial(Snapshot, s))
    /\ UNCHANGED <<inserted, mainOut>>

CallSearchLastnamePartialFullname ==
  \E s \in SearchArgs :
    /\ Call("search_lastname_partial_fullname", s,
            search_lastname_partial_fullname(Snapshot, s))
    /\ UNCHANGED <<inserted, mainOut>>

CallMain ==
  LET m == main(Snapshot)
  IN /\ Call("main", None, m)
     /\ mainOut' = m.out
     /\ inserted' = IF m.out.ran THEN SetToBag({person}) (+) BagOfSeq(people)
                    ELSE EmptyBag

Next ==
  \/ CallCreateTable
  \/ CallDropTable
  \/ CallInsertTable
  \/ CallPopulateTable
  \/ CallFetchTable
  \/ CallSearchLastnameExact
  \/ CallSearchBiographyPartial
  \/ CallSearchLastnamePartialFullname
  \/ CallMain

Spec == Init /\ [][Next]_vars

\* ================================================================ claims
Min(S) == CHOOSE x \in S : \A y \in S : x <= y

Database == [exists |-> tableExists, rows |-> rows, unclosed |-> unclosed]

\* Codepoint order of two texts, from the first position where they differ.
CodepointLeq(a, b) ==
  LET n == IF Len(a) < Len(b) THEN Len(a) ELSE Len(b)
      diff == {i \in 1..n : a[i] # b[i]}
  IN IF diff = {} THEN Len(a) <= Len(b) ELSE a[Min(diff)] < b[Min(diff)]

\* Lower-case form of a letter: the ASCII capitals and the Latin-1 capitals
\* (U+00C0..U+00DE but the multiplication sign U+00D7) map 32 up.
FoldCase(c) ==
  IF (c >= 65 /\ c <= 90) \/ (c >= 192 /\ c <= 222 /\ c # 215) THEN c + 32 ELSE c

\* hay contains needle as a substring, ignoring letter case.
ContainsIgnoringCase(hay, needle) ==
  \E k \in 0..(Len(hay) - Len(needle)) :
    \A j \in 1..Len(needle) : FoldCase(hay[k + j]) = FoldCase(needle[j])

Lastnames(rs) == [i \in 1..Len(rs) |-> rs[i][4]]

\* C1: fetch_table() returns exactly the multiset of rows inserted since the
\* table was created: every inserted 6-tuple field for field, duplicates as
\* often as inserted, no other row, and the empty sequence after no insert.
C1_FetchReturnsInserted ==
  (result.op = "fetch_table" /\ ~result.fault) =>
    /\ BagOfSeq(result.ret) = inserted
    /\ \A i \in 1..Len(result.ret) : Len(result.ret[i]) = 6
    /\ (inserted = EmptyBag => result.ret = <<>>)

\* fetch_table returned five rows in an order other than the storage order:
\* one row inserted twice and the batch of populate_table.
C1_Witness ==
  /\ result.op = "fetch_table"
  /\ Len(result.ret) = 5
  /\ \E i, j \in 1..5 : i # j /\ result.ret[i] = result.ret[j]
  /\ \E i \in 1..5 : result.ret[i] = people[1]
  /\ result.ret # rows

\* C2: fetch_table() returns the rows sorted non-decreasing by lastname under
\* case-sensitive codepoint comparison, whatever the insertion order.
C2_FetchSortedByLastname ==
  (result.op = "fetch_table" /\ ~result.fault) =>
    \A i \in 1..(Len(result.ret) - 1) :
      CodepointLeq(result.ret[i][4], result.ret[i + 1][4])

\* fetch_table reordered the stored rows and put 'Smith' before 'shmo'.
C2_Witness ==
  /\ result.op = "fetch_table"
  /\ result.ret # rows
  /\ \E i \in 1..(Len(result.ret) - 1) :
       /\ result.ret[i][4] = people[3][4]
       /\ result.ret[i + 1][4] = Str_shmo

\* C3: create_table() returns False without raising when person exists,
\* leaving the table and its rows unchanged; it returns True when person does
\* not exist, and then the table exists and is empty.
C3_CreateTable ==
  (result.op = "create_table") =>
    /\ ~result.fault
    /\ tableExists
    /\ (pre.exists => result.ret = FALSE /\ rows = pre.rows)
    /\ (~pre.exists => result.ret = TRUE /\ rows = <<>>)

\* create_table returned False on a table that holds rows.
C3_Witness ==
  /\ result.op = "create_table"
  /\ pre.exists
  /\ Len(pre.rows) >= 2
  /\ result.ret = FALSE

\* C4: drop_table() never faults and leaves the table absent, whatever it
\* found; called when the table is already absent (a second consecutive call)
\* it leaves the state as it found it.
C4_DropTableIdempotent ==
  (result.op = "drop_table") =>
    /\ ~result.fault
    /\ ~tableExists
    /\ rows = <<>>
    /\ (~pre.exists => Database = pre)

\* drop_table was called on an absent table after main() had filled one.
C4_Witness ==
  /\ result.op = "drop_table"
  /\ ~pre.exists
  /\ mainOut.ran

\* C5: search_lastname_exact(l) returns a sequence of exactly one element:
\* the first row in storage order whose lastname equals l case-sensitively,
\* with all six fields, or None when no row matches.
C5_SearchLastnameExact ==
  (result.op = "search_lastname_exact" /\ ~result.fault) =>
    LET hits == {i \in 1..Len(rows) : rows[i][4] = result.arg}
    IN /\ Len(result.ret) = 1
       /\ (hits = {} => result.ret[1] = None)
       /\ (hits # {} => result.ret[1] = rows[Min(hits)] /\ Len(result.ret[1]) = 6)

\* 'Shmo' returned Joey's row, the third in storage order, although a row with
\* lastname 'shmo' is stored first and a second 'Shmo' row, with a smaller
\* firstname, last.
C5_Witness ==
  /\ result.op = "search_lastname_exact"
  /\ result.arg = Str_Shmo
  /\ result.ret = <<people[2]>>
  /\ Len(rows) = 5
  /\ rows[1] = Zed
  /\ rows[3] = people[2]
  /\ rows[5] = Al

\* C6: for every text s, search_biography_partial(s) returns the first row in
\* storage order whose biography contains s as a substring ignoring letter
\* case, and None if and only if no stored biography contains s.
C6_BiographySubstring ==
  (result.op = "search_biography_partial" /\ ~result.fault) =>
    LET hits == {i \in 1..Len(rows) : ContainsIgnoringCase(rows[i][5], result.arg)}
    IN /\ (hits = {} <=> result.ret = None)
       /\ (hits # {} => result.ret = rows[Min(hits)])

\* C7: search_lastname_partial_fullname(s) returns one (firstname, lastname)
\* pair for every row whose lastname contains s as a substring ignoring
\* letter case and for no other row, ordered non-decreasing by firstname.
C7_LastnameSubstring ==
  (result.op = "search_lastname_partial_fullname" /\ ~result.fault) =>
    LET hits == SelectSeq(rows, LAMBDA r : ContainsIgnoringCase(r[4], result.arg))
    IN /\ BagOfSeq(result.ret) = BagOfSeq([i \in 1..Len(hits) |-> <<hits[i][3], hits[i][4]>>])
       /\ \A i \in 1..Len(result.ret) : Len(result.ret[i]) = 2
       /\ \A i \in 1..(Len(result.ret) - 1) :
            CodepointLeq(result.ret[i][1], result.ret[i + 1][1])

\* C8: main(), from any database state, leaves a table whose fetch_table()
\* is exactly four rows with lastnames Anderson, Doe, Shmo, Smith in that
\* order, create_table having returned True and no earlier row surviving.
C8_MainScenario ==
  (result.op = "main") =>
    /\ ~result.fault
    /\ mainOut.ran
    /\ Len(mainOut.items) = 4
    /\ Lastnames(mainOut.items) =
         << <<65, 110, 100, 101, 114, 115, 111, 110>>, <<68, 111, 101>>,
            <<83, 104, 109, 111>>, <<83, 109, 105, 116, 104>> >>
    /\ BagOfSeq(mainOut.items) = BagOfSeq(<<person>> \o people)
    /\ BagOfSeq(rows) = BagOfSeq(<<person>> \o people)

\* main() ran on a table that held other rows and after a connection had
\* been left unclosed.
C8_Witness ==
  /\ result.op = "main"
  /\ pre.exists
  /\ \E i \in 1..Len(pre.rows) : pre.rows[i] = Zed
  /\ pre.unclosed > 0
  /\ Len(mainOut.items) = 4

RowOps ==
  {"insert_table", "populate_table", "fetch_table", "search_lastname_exact",
   "search_biography_partial", "search_lastname_partial_fullname"}

\* C9: with no person table, insert_table, populate_table, fetch_table and
\* the three searches end in an uncaught fault with no return value and leave
\* the database as it was, the table absent and no row stored; create_table
\* alone never ends in a fault.
C9_FaultWithoutTable ==
  /\ (result.op \in RowOps /\ ~pre.exists) =>
       /\ result.fault
       /\ result.ret = None
       /\ ~tableExists
       /\ rows = pre.rows
       /\ rows = <<>>
  /\ (result.op = "create_table" => ~result.fault)

\* populate_table faulted on a database without the table.
C9_Witness ==
  /\ result.op = "populate_table"
  /\ result.fault
  /\ ~tableExists

\* C10: every operation that returns to its caller has closed every
\* connection it opened, create_table returning False included.
C10_ConnectionsClosed ==
  ~result.fault => unclosed = pre.unclosed

====
